---- MODULE Spec2Model ----
(***************************************************************************)
(* A model of karlmcguire/dump: an in-memory list of items guarded by a    *)
(* sync.RWMutex, with gob persistence to one file.                         *)
(*                                                                         *)
(* The repository holds three generations of the same component, and the   *)
(* model carries all three; the variable `variant` says which one runs:    *)
(*   "dump"   package dump,  src/README.md 71-318  (Dump, NewDump, Map)    *)
(*   "store"  package store, src/store.go  1-230   (Store, locks taken     *)
(*            inside encodeGob / decodeGob, released before Save)          *)
(*   "early"  package store, src/store.go  232-384 (EncodeFile, DecodeFile,*)
(*            EncodeJson, Write, Read; embedded RWMutex)                   *)
(*                                                                         *)
(* A thread's pc names the code it is executing; the effect of that code   *)
(* is committed by the step that leaves the pc.                            *)
(***************************************************************************)
EXTENDS Integers, Sequences, FiniteSets, TLC

\* ------------------------------------------------------------- bounds
MaxAdds == 2
MaxOps == 3

\* ---------------------------------------------------------- constants
PERSIST_MANUAL == 0
PERSIST_WRITES == 1
PERSIST_INTERVAL == 2
BadPersist == 999

Nil == "nil"
None == "none"

Variants == {"dump", "store", "early"}
Procs == {"p1", "p2"}
Ticker == "tick"
Threads == Procs \cup {Ticker}

BlobType == [Name |-> "dump.Blob", Value |-> "Blob"]

\* What the constructor is called with: the table of TestNewDump
\* (src/store_test.go 105-136), the manual mode, and two calls with more
\* than one invalid argument.
NewInputs ==
  {[filename |-> "test.db", persist |-> PERSIST_WRITES, types |-> << >>],
   [filename |-> "test.db", persist |-> BadPersist, types |-> <<BlobType>>],
   [filename |-> "test.db", persist |-> PERSIST_WRITES, types |-> <<BlobType>>],
   [filename |-> "", persist |-> PERSIST_WRITES, types |-> <<BlobType>>],
   [filename |-> "test.db", persist |-> PERSIST_INTERVAL, types |-> <<BlobType>>],
   [filename |-> "test.db", persist |-> PERSIST_MANUAL, types |-> <<BlobType>>],
   [filename |-> "", persist |-> BadPersist, types |-> << >>],
   [filename |-> "test.db", persist |-> BadPersist, types |-> << >>]}

\* What Add is called with: a registered type, a record whose MarshalJSON
\* fails (Blob{"bad"} of the tests), and a type nobody registered.
AddInputs ==
  {[typ |-> "Blob", data |-> "a"], [typ |-> "Blob", data |-> "bad"],
   [typ |-> "Note", data |-> "a"]}

NilItem == [key |-> 0, typ |-> "nil", data |-> ""]

NoFile == [exists |-> FALSE, bytes |-> << >>]
InitFiles ==
  {NoFile,
   [exists |-> TRUE, bytes |-> << <<[name |-> "dump.Blob", data |-> "a"]>> >>],
   [exists |-> TRUE, bytes |-> << <<[name |-> "main.Post", data |-> "a"]>> >>]}

VARIABLES
  variant,    \* which generation of the code runs
  registry,   \* gob's process-wide registry: a set of <<name, type>>
  built,      \* a store has been constructed
  lastNew,    \* the last constructor call: its arguments and what it returned
  filename, persist, items,   \* the fields of Dump / Store
  writer, readers,            \* the RWMutex: the Lock holder, the RLock holders
  file,       \* the backing file: [exists, bytes]
  pc, loc,    \* per thread: the code it executes, its local variables
  crashed,    \* a panic ended the process
  nextKey,    \* identity of the next record handed to Add
  ops,        \* operations started so far
  addRet,     \* the Adds that have returned: a set of [key, id]
  loaded,     \* a decodeGob has written the item list
  wfailed     \* an ioutil.WriteFile has returned an error

vars ==
  <<variant, registry, built, lastNew, filename, persist, items, writer,
    readers, file, pc, loc, crashed, nextKey, ops, addRet, loaded, wfailed>>

\* ------------------------------------------------------------ helpers
Min(S) == CHOOSE x \in S : \A y \in S : x <= y

\* A thread's locals: the call it is in; the record and id of an Add (for
\* Map, the id of the record at which f fails); the bytes in its buffer;
\* the error it will return; what the caller's function returned (ferr) and
\* the list it was handed (seen; for Map, the ids it visited); the list
\* encodeGob read (snap) and whether a writer was active meanwhile (raced).
NoLoc ==
  [op |-> None, key |-> 0, id |-> -1, buf |-> << >>, err |-> Nil,
   ferr |-> Nil, seen |-> << >>, snap |-> << >>, raced |-> FALSE]

Registered(t) == \E n \in {r[1] : r \in registry} : <<n, t>> \in registry
NameOf(t) == CHOOSE n \in {r[1] : r \in registry} : <<n, t>> \in registry
Known(n) == \E r \in registry : r[1] = n
TypeOf(n) == CHOOSE t \in {r[2] : r \in registry} : <<n, t>> \in registry

\* gob.RegisterName for every t of types, in order.
RegisterAll(types) ==
  registry \cup {<<types[i].Name, types[i].Value>> : i \in 1..Len(types)}

\* A variant of EncodeItem that sends the type name and no field.
EncodeItemNoData(it) ==
  IF it.typ = "nil" THEN [name |-> "", data |-> ""]
  ELSE [name |-> NameOf(it.typ), data |-> ""]

\* One element of the gob stream: the registered name of the concrete type
\* and the value's exported fields. A nil interface is sent with no name.
EncodeItem(it) ==
  IF it.typ = "nil" THEN [name |-> "", data |-> ""]
  ELSE [name |-> NameOf(it.typ), data |-> it.data]

\* A decoded element is a new value of the type registered under the name.
DecodeItem(e) ==
  IF e.name = "" THEN NilItem
  ELSE [key |-> 0, typ |-> TypeOf(e.name), data |-> e.data]

\* gob.NewEncoder(&buffer).Encode(items); the error is dropped. The stream
\* is a sequence of value messages: one when Encode succeeds, none when a
\* concrete type is not registered (only type descriptors were sent).
encodeGob(its) ==
  IF \A i \in 1..Len(its) : its[i].typ = "nil" \/ Registered(its[i].typ)
  THEN << [i \in 1..Len(its) |-> EncodeItem(its[i])] >>
  ELSE << >>

\* gob.NewDecoder(bytes.NewBuffer(data)).Decode(&items): decodes in place.
\* No value message: io.EOF, the list untouched. A name that is not
\* registered: an error, with the list already resized and the elements
\* before it already replaced.
decodeGob(data, old) ==
  IF data = << >> THEN [items |-> old, err |-> "EOF"]
  ELSE LET enc == data[1]
           bad == {i \in 1..Len(enc) : enc[i].name # "" /\ ~Known(enc[i].name)}
       IN IF bad = {}
          THEN [items |-> [i \in 1..Len(enc) |-> DecodeItem(enc[i])],
                err |-> Nil]
          ELSE [items |->
                  [i \in 1..Len(enc) |->
                     IF i < Min(bad) THEN DecodeItem(enc[i])
                     ELSE IF i <= Len(old) THEN old[i] ELSE NilItem],
                err |-> "DecodeErr"]

\* sync.RWMutex
CanLock == writer = None /\ readers = {}
CanRLock == writer = None
Holds(p) == writer = p \/ p \in readers
\* A variant of the unlock that leaves the read lock taken.
ReleaseWriterOnly(p) ==
  /\ writer' = IF writer = p THEN None ELSE writer
  /\ readers' = readers

Release(p) ==
  /\ writer' = IF writer = p THEN None ELSE writer
  /\ readers' = readers \ {p}

Running == built /\ ~crashed
Idle(p) == Running /\ pc[p] = "idle"
Start(p) == Idle(p) /\ ops < MaxOps

\* --------------------------------------------------------------- Init
Init ==
  /\ variant \in Variants
  /\ registry = {}
  /\ built = FALSE
  /\ lastNew = [called |-> FALSE, filename |-> "", persist |-> 0, ntypes |-> 0,
                err |-> Nil, store |-> FALSE]
  /\ filename = ""
  /\ persist = PERSIST_MANUAL
  /\ items = << >>
  /\ writer = None
  /\ readers = {}
  /\ file \in InitFiles
  /\ pc = [p \in Threads |-> "idle"]
  /\ loc = [p \in Threads |-> NoLoc]
  /\ crashed = FALSE
  /\ nextKey = 1
  /\ ops = 0
  /\ addRet = {}
  /\ loaded = FALSE
  /\ wfailed = FALSE

\* -------------------------------------------------------- constructors
\* What NewDump / NewStore (src/store.go 71-102) returns for its arguments.
NewDumpErr(fn, ps, types) ==
  IF fn = "" THEN "ErrInvalidFilename"
  ELSE IF Len(types) = 0 THEN "ErrInvalidTypes"
  ELSE IF ps # PERSIST_MANUAL /\ ps # PERSIST_WRITES /\ ps # PERSIST_INTERVAL
       THEN "ErrInvalidPersist"
  ELSE Nil

\* The types are registered after the filename and type checks and before
\* the persist check.
NewDumpRegistry(fn, ps, types) ==
  IF fn = "" \/ Len(types) = 0 THEN registry ELSE RegisterAll(types)

\* The early NewStore (src/store.go 266-286) checks the persist value only.
EarlyNewStoreErr(fn, ps, types) ==
  IF ps # PERSIST_MANUAL /\ ps # PERSIST_WRITES /\ ps # PERSIST_INTERVAL
  THEN "ErrInvalidPersist"
  ELSE Nil

\* A variant of the constructor that creates the file of the new store.
ConstructCreatesFile(fn, ps, types, err, reg) ==
  /\ ~built /\ ~crashed
  /\ registry' = reg
  /\ lastNew' = [called |-> TRUE, filename |-> fn, persist |-> ps,
                 ntypes |-> Len(types), err |-> err, store |-> err = Nil]
  /\ built' = (err = Nil)
  /\ filename' = IF err = Nil THEN fn ELSE filename
  /\ persist' = IF err = Nil THEN ps ELSE persist
  /\ items' = << >>
  /\ file' = IF err = Nil THEN [exists |-> TRUE, bytes |-> << >>] ELSE file
  /\ UNCHANGED <<variant, wfailed, writer, readers, pc, loc, crashed,
                 nextKey, ops, addRet, loaded>>

Construct(fn, ps, types, err, reg) ==
  /\ ~built /\ ~crashed
  /\ registry' = reg
  /\ lastNew' = [called |-> TRUE, filename |-> fn, persist |-> ps,
                 ntypes |-> Len(types), err |-> err, store |-> err = Nil]
  /\ built' = (err = Nil)
  /\ filename' = IF err = Nil THEN fn ELSE filename
  /\ persist' = IF err = Nil THEN ps ELSE persist
  /\ items' = << >>
  /\ UNCHANGED <<variant, wfailed, writer, readers, file, pc, loc, crashed,
                 nextKey, ops, addRet, loaded>>

NewDump ==
  /\ variant \in {"dump", "store"}
  /\ \E in \in NewInputs :
       Construct(in.filename, in.persist, in.types,
                 NewDumpErr(in.filename, in.persist, in.types),
                 NewDumpRegistry(in.filename, in.persist, in.types))

EarlyNewStore ==
  /\ variant = "early"
  /\ \E in \in NewInputs :
       Construct(in.filename, in.persist, in.types,
                 EarlyNewStoreErr(in.filename, in.persist, in.types),
                 RegisterAll(in.types))

\* ----------------------------------------------------------------- Add
\* A variant of append that puts the new record first.
PrependItem(its, it) == <<it>> \o its

\* s.items = append(s.items, item)
AppendItem(its, it) == Append(its, it)

\* Lock, then items = append(items, item). In dump and early the id,
\* len(items) - 1, is taken here, with the lock held.
AddLock(p) ==
  /\ Start(p) /\ nextKey <= MaxAdds /\ CanLock
  /\ \E in \in AddInputs :
       LET it == [key |-> nextKey, typ |-> in.typ, data |-> in.data] IN
       /\ items' = AppendItem(items, it)
       /\ loc' = [loc EXCEPT ![p] =
                    [NoLoc EXCEPT !.op = "Add", !.key = nextKey,
                                  !.id = IF variant = "store" THEN -1
                                         ELSE Len(items)]]
  /\ writer' = p
  /\ nextKey' = nextKey + 1
  /\ ops' = ops + 1
  /\ pc' = [pc EXCEPT ![p] =
              IF variant = "store" THEN "unlock"
              ELSE IF persist = PERSIST_WRITES THEN "enc" ELSE "ret"]
  /\ UNCHANGED <<variant, wfailed, registry, built, lastNew, filename, persist,
                 readers, file, crashed, addRet, loaded>>

\* A variant of Store.Add / Store.Update that goes on to Save with the write
\* lock still held.
StoreUnlockKeepsLock(p) ==
  /\ ~crashed /\ pc[p] = "unlock" /\ writer = p
  /\ writer' = writer
  /\ pc' = [pc EXCEPT ![p] = IF loc[p].op = "Add" THEN "addlen" ELSE "enc"]
  /\ UNCHANGED <<variant, wfailed, registry, built, lastNew, filename, persist, items,
                 readers, file, loc, crashed, nextKey, ops, addRet,
                 loaded>>

\* store: s.mutex.Unlock() before the return statement is evaluated.
StoreUnlock(p) ==
  /\ ~crashed /\ pc[p] = "unlock" /\ writer = p
  /\ writer' = None
  /\ pc' = [pc EXCEPT ![p] = IF loc[p].op = "Add" THEN "addlen" ELSE "enc"]
  /\ UNCHANGED <<variant, wfailed, registry, built, lastNew, filename, persist, items,
                 readers, file, loc, crashed, nextKey, ops, addRet,
                 loaded>>

\* store: return len(s.items) - 1, ... with no lock held.
StoreAddLen(p) ==
  /\ ~crashed /\ pc[p] = "addlen"
  /\ loc' = [loc EXCEPT ![p].id = Len(items) - 1]
  /\ pc' = [pc EXCEPT ![p] = IF persist = PERSIST_WRITES THEN "enc" ELSE "ret"]
  /\ UNCHANGED <<variant, wfailed, registry, built, lastNew, filename, persist, items,
                 writer, readers, file, crashed, nextKey, ops, addRet,
                 loaded>>

\* ------------------------------------------------- save: encode, write
\* The thread runs encodeGob. dump: under the lock its caller holds
\* (save, "no mutex"). store: encodeGob takes and releases the read lock
\* itself. early: under the caller's lock, or under none (EncodeFile called
\* directly), where a concurrent writer may leave it a torn list.
Races(p) == variant = "early" /\ ~Holds(p) /\ writer # None

EncodeOutcomes(p) ==
  IF Races(p) THEN {encodeGob(items), << >>} ELSE {encodeGob(items)}

Encode(p) ==
  /\ ~crashed /\ pc[p] = "enc"
  /\ variant = "store" => CanRLock
  /\ \E b \in EncodeOutcomes(p) :
       loc' = [loc EXCEPT ![p].buf = b, ![p].snap = items,
                          ![p].raced = Races(p)]
  /\ pc' = [pc EXCEPT ![p] = "wopen"]
  /\ UNCHANGED <<variant, wfailed, registry, built, lastNew, filename, persist, items,
                 writer, readers, file, crashed, nextKey, ops, addRet,
                 loaded>>

\* A variant of the failing open under which Add takes its record back.
WriteOpenRollback(p) ==
  /\ ~crashed /\ pc[p] = "wopen"
  /\ \E ok \in IF filename = "" THEN {FALSE} ELSE BOOLEAN :
       IF ok
       THEN /\ file' = [exists |-> TRUE, bytes |-> << >>]
            /\ pc' = [pc EXCEPT ![p] = "wdata"]
            /\ loc' = loc
            /\ wfailed' = wfailed
            /\ items' = items
       ELSE /\ file' = file
            /\ pc' = [pc EXCEPT ![p] = "ret"]
            /\ loc' = [loc EXCEPT ![p].err = "IOErr"]
            /\ wfailed' = TRUE
            /\ items' = IF loc[p].op = "Add" /\ items # << >>
                         THEN SubSeq(items, 1, Len(items) - 1) ELSE items
  /\ UNCHANGED <<variant, registry, built, lastNew, filename, persist,
                 writer, readers, crashed, nextKey, ops, addRet, loaded>>

\* ioutil.WriteFile, first half: open with O_CREATE|O_TRUNC. It fails for
\* an empty name and whenever the file system refuses (a read-only file).
WriteOpen(p) ==
  /\ ~crashed /\ pc[p] = "wopen"
  /\ \E ok \in IF filename = "" THEN {FALSE} ELSE BOOLEAN :
       IF ok
       THEN /\ file' = [exists |-> TRUE, bytes |-> << >>]
            /\ pc' = [pc EXCEPT ![p] = "wdata"]
            /\ loc' = loc
            /\ wfailed' = wfailed
       ELSE /\ file' = file
            /\ pc' = [pc EXCEPT ![p] = "ret"]
            /\ loc' = [loc EXCEPT ![p].err = "IOErr"]
            /\ wfailed' = TRUE
  /\ UNCHANGED <<variant, registry, built, lastNew, filename, persist, items,
                 writer, readers, crashed, nextKey, ops, addRet, loaded>>

\* ioutil.WriteFile, second half: write the buffer and close. A failed write
\* (a full disk) leaves the truncated file.
WriteData(p) ==
  /\ ~crashed /\ pc[p] = "wdata"
  /\ \E ok \in BOOLEAN :
       IF ok
       THEN /\ file' = [exists |-> TRUE, bytes |-> loc[p].buf]
            /\ loc' = loc
            /\ wfailed' = wfailed
       ELSE /\ file' = file
            /\ loc' = [loc EXCEPT ![p].err = "IOErr"]
            /\ wfailed' = TRUE
  /\ pc' = [pc EXCEPT ![p] = "ret"]
  /\ UNCHANGED <<variant, registry, built, lastNew, filename, persist, items,
                 writer, readers, crashed, nextKey, ops, addRet, loaded>>

\* -------------------------------------------------------------- return
\* The deferred Unlock / RUnlock (or the explicit one right before return)
\* and the return to the caller.
Return(p) ==
  /\ ~crashed /\ pc[p] = "ret" /\ p \in Procs
  /\ Release(p)
  /\ addRet' = IF loc[p].op = "Add"
               THEN addRet \cup {[key |-> loc[p].key, id |-> loc[p].id]}
               ELSE addRet
  /\ loc' = [loc EXCEPT ![p] = NoLoc]
  /\ pc' = [pc EXCEPT ![p] = "idle"]
  /\ UNCHANGED <<variant, wfailed, registry, built, lastNew, filename, persist, items,
                 file, crashed, nextKey, ops, loaded>>

\* -------------------------------------------------------------- Update
\* What the caller's function does to the list it is handed: it may change
\* the data of one record in place (idx = 0: none) and returns an error or
\* nil. It cannot change the length of the store's slice.
Mutate(its, idx) ==
  [i \in 1..Len(its) |->
     IF i = idx /\ its[i].typ # "nil" THEN [its[i] EXCEPT !.data = "b"]
     ELSE its[i]]

\* A variant of Update that saves whatever f returned.
UpdateGotoAlwaysSave(e) ==
  IF persist # PERSIST_WRITES THEN "ret"
  ELSE IF variant = "store" THEN "unlock" ELSE "enc"

\* A variant of Update that saves in every persist mode.
UpdateGotoSaveAnyMode(e) ==
  IF e # Nil THEN "ret"
  ELSE IF variant = "store" THEN "unlock" ELSE "enc"

\* Where Update goes once f has returned e.
UpdateGoto(e) ==
  IF e # Nil \/ persist # PERSIST_WRITES THEN "ret"
  ELSE IF variant = "store" THEN "unlock" ELSE "enc"

\* Update (Write in early): Lock, f(items). On an error of f the call
\* returns it; with PERSIST_WRITES it saves: dump and early under the lock,
\* store after Unlock.
UpdateLock(p) ==
  /\ Start(p) /\ CanLock
  /\ \E idx \in 0..Len(items), e \in {Nil, "CallerErr"} :
       /\ items' = Mutate(items, idx)
       /\ loc' = [loc EXCEPT ![p] =
                    [NoLoc EXCEPT !.op = "Update", !.err = e, !.ferr = e,
                                  !.seen = Mutate(items, idx)]]
       /\ pc' = [pc EXCEPT ![p] = UpdateGoto(e)]
  /\ writer' = p
  /\ ops' = ops + 1
  /\ UNCHANGED <<variant, wfailed, registry, built, lastNew, filename, persist,
                 readers, file, crashed, nextKey, addRet, loaded>>

\* ----------------------------------------------------------------- Map
\* A variant of the loop of Map that remembers the error and goes on.
RECURSIVE MapLoopNoStop(_, _, _, _, _)
MapLoopNoStop(its, i, failAt, mutate, visited) ==
  IF i > Len(its)
  THEN [items |-> its, visited |-> visited,
        err |-> IF failAt \in 1..Len(its) THEN "CallerErr" ELSE Nil]
  ELSE MapLoopNoStop(IF mutate THEN Mutate(its, i) ELSE its, i + 1, failAt,
                     mutate, Append(visited, i - 1))

\* The loop of Map from record i on: f(item) for each record in order, f
\* changing the record when `mutate` and failing at record failAt.
RECURSIVE MapLoop(_, _, _, _, _)
MapLoop(its, i, failAt, mutate, visited) ==
  IF i > Len(its) THEN [items |-> its, visited |-> visited, err |-> Nil]
  ELSE LET its2 == IF mutate THEN Mutate(its, i) ELSE its
           vis2 == Append(visited, i - 1)
       IN IF i = failAt
          THEN [items |-> its2, visited |-> vis2, err |-> "CallerErr"]
          ELSE MapLoop(its2, i + 1, failAt, mutate, vis2)

MapLock(p) ==
  /\ Start(p) /\ variant = "dump" /\ CanLock
  /\ \E failAt \in 0..Len(items), mutate \in BOOLEAN :
       LET r == MapLoop(items, 1, failAt, mutate, << >>) IN
       /\ items' = r.items
       /\ loc' = [loc EXCEPT ![p] =
                    [NoLoc EXCEPT !.op = "Map", !.err = r.err,
                                  !.ferr = r.err, !.id = failAt - 1,
                                  !.seen = r.visited]]
       /\ pc' = [pc EXCEPT ![p] =
                   IF r.err # Nil \/ persist # PERSIST_WRITES THEN "ret"
                   ELSE "enc"]
  /\ writer' = p
  /\ ops' = ops + 1
  /\ UNCHANGED <<variant, wfailed, registry, built, lastNew, filename, persist,
                 readers, file, crashed, nextKey, addRet, loaded>>

\* ---------------------------------------------------------------- View
\* View (Read in early): RLock, f(items). Only dump's f returns an error.
ViewRLock(p) ==
  /\ Start(p) /\ CanRLock
  /\ \E e \in IF variant = "dump" THEN {Nil, "CallerErr"} ELSE {Nil} :
       loc' = [loc EXCEPT ![p] =
                 [NoLoc EXCEPT !.op = "View", !.err = e, !.ferr = e,
                               !.seen = items]]
  /\ readers' = readers \cup {p}
  /\ pc' = [pc EXCEPT ![p] = "ret"]
  /\ ops' = ops + 1
  /\ UNCHANGED <<variant, wfailed, registry, built, lastNew, filename, persist, items,
                 writer, file, crashed, nextKey, addRet, loaded>>

\* --------------------------------------------------------- MarshalJSON
\* An item's own encoding. Blob{"bad"} fails in MarshalJSON; the early
\* EncodeJson of an item returns bytes and no error.
\* A variant of an item's encoding that stamps it with a call counter.
ItemJSONStamped(it) == <<"{", it.data, ops, "}">>

ItemJSON(it) == <<"{", it.data, "}">>
ItemJSONFails(it) == variant # "early" /\ it.data = "bad"

\* A variant of the loop of MarshalJSON that writes the comma after every
\* record.
RECURSIVE JSONLoopTrailingComma(_, _, _)
JSONLoopTrailingComma(its, i, buf) ==
  IF i > Len(its) THEN [out |-> Append(buf, "]"), err |-> Nil, at |-> -1]
  ELSE IF ItemJSONFails(its[i])
       THEN [out |-> << >>, err |-> "JSONErr", at |-> i - 1]
  ELSE JSONLoopTrailingComma(its, i + 1,
                             Append(buf \o ItemJSON(its[i]), ","))

\* The loop of MarshalJSON from record i on, the buffer so far in buf. The
\* error is the one of the record at index `at`.
RECURSIVE JSONLoop(_, _, _)
JSONLoop(its, i, buf) ==
  IF i > Len(its) THEN [out |-> Append(buf, "]"), err |-> Nil, at |-> -1]
  ELSE IF ItemJSONFails(its[i])
       THEN [out |-> << >>, err |-> "JSONErr", at |-> i - 1]
  ELSE LET b == buf \o ItemJSON(its[i])
       IN JSONLoop(its, i + 1, IF i - 1 # Len(its) - 1 THEN Append(b, ",") ELSE b)

MarshalJSON(its) == JSONLoop(its, 1, <<"[">>)

\* A nil element of the list has no MarshalJSON to call: the call panics.
HasNil(its) == \E i \in 1..Len(its) : its[i].typ = "nil"

\* dump, store: MarshalJSON under the read lock.
JSONRLock(p) ==
  /\ Start(p) /\ variant # "early" /\ CanRLock
  /\ readers' = readers \cup {p}
  /\ crashed' = HasNil(items)
  /\ loc' = [loc EXCEPT ![p] =
               [NoLoc EXCEPT !.op = "MarshalJSON",
                             !.buf = IF HasNil(items) THEN << >>
                                     ELSE MarshalJSON(items).out,
                             !.err = IF HasNil(items) THEN Nil
                                     ELSE MarshalJSON(items).err,
                             !.id = IF HasNil(items) THEN -1
                                    ELSE MarshalJSON(items).at]]
  /\ pc' = [pc EXCEPT ![p] = "ret"]
  /\ ops' = ops + 1
  /\ UNCHANGED <<variant, wfailed, registry, built, lastNew, filename, persist, items,
                 writer, file, nextKey, addRet, loaded>>

\* early: EncodeJson takes no lock.
EarlyJSONBegin(p) ==
  /\ Start(p) /\ variant = "early"
  /\ loc' = [loc EXCEPT ![p] = [NoLoc EXCEPT !.op = "MarshalJSON"]]
  /\ pc' = [pc EXCEPT ![p] = "scan"]
  /\ ops' = ops + 1
  /\ UNCHANGED <<variant, wfailed, registry, built, lastNew, filename, persist, items,
                 writer, readers, file, crashed, nextKey, addRet, loaded>>

EarlyJSONScan(p) ==
  /\ ~crashed /\ pc[p] = "scan"
  /\ crashed' = HasNil(items)
  /\ loc' = [loc EXCEPT ![p].buf = IF HasNil(items) THEN << >>
                                   ELSE MarshalJSON(items).out]
  /\ pc' = [pc EXCEPT ![p] = "ret"]
  /\ UNCHANGED <<variant, wfailed, registry, built, lastNew, filename, persist, items,
                 writer, readers, file, nextKey, ops, addRet, loaded>>

\* ---------------------------------------------------------------- Save
\* dump: Save takes the read lock around save. store: Save takes none (its
\* encodeGob does). early: EncodeFile takes none.
SaveBegin(p) ==
  /\ Start(p)
  /\ variant = "dump" => CanRLock
  /\ readers' = IF variant = "dump" THEN readers \cup {p} ELSE readers
  /\ loc' = [loc EXCEPT ![p] = [NoLoc EXCEPT !.op = "Save"]]
  /\ pc' = [pc EXCEPT ![p] = "enc"]
  /\ ops' = ops + 1
  /\ UNCHANGED <<variant, wfailed, registry, built, lastNew, filename, persist, items,
                 writer, file, crashed, nextKey, addRet, loaded>>

\* ---------------------------------------------------------------- Load
\* dump, store: Load takes the write lock before ReadFile. early:
\* DecodeFile takes none.
LoadBegin(p) ==
  /\ Start(p)
  /\ variant # "early" => CanLock
  /\ writer' = IF variant # "early" THEN p ELSE writer
  /\ loc' = [loc EXCEPT ![p] = [NoLoc EXCEPT !.op = "Load"]]
  /\ pc' = [pc EXCEPT ![p] = "read"]
  /\ ops' = ops + 1
  /\ UNCHANGED <<variant, wfailed, registry, built, lastNew, filename, persist, items,
                 readers, file, crashed, nextKey, addRet, loaded>>

\* A variant of ReadFile under which a failed read empties the list.
ReadFileClears(p) ==
  /\ ~crashed /\ pc[p] = "read"
  /\ \E ok \in IF file.exists THEN BOOLEAN ELSE {FALSE} :
       IF ok
       THEN /\ loc' = [loc EXCEPT ![p].buf = file.bytes]
            /\ pc' = [pc EXCEPT ![p] = "dec"]
            /\ items' = items
       ELSE /\ loc' = [loc EXCEPT ![p].err = "IOErr"]
            /\ pc' = [pc EXCEPT ![p] = "ret"]
            /\ items' = << >>
  /\ writer' = IF variant = "store" /\ writer = p THEN None ELSE writer
  /\ UNCHANGED <<variant, wfailed, registry, built, lastNew, filename, persist,
                 readers, file, crashed, nextKey, ops, addRet, loaded>>

\* ioutil.ReadFile: fails when the file does not exist or cannot be read.
\* store: Unlock follows the read on both paths, before decodeGob.
ReadFile(p) ==
  /\ ~crashed /\ pc[p] = "read"
  /\ \E ok \in IF file.exists THEN BOOLEAN ELSE {FALSE} :
       IF ok
       THEN /\ loc' = [loc EXCEPT ![p].buf = file.bytes]
            /\ pc' = [pc EXCEPT ![p] = "dec"]
       ELSE /\ loc' = [loc EXCEPT ![p].err = "IOErr"]
            /\ pc' = [pc EXCEPT ![p] = "ret"]
  /\ writer' = IF variant = "store" /\ writer = p THEN None ELSE writer
  /\ UNCHANGED <<variant, wfailed, registry, built, lastNew, filename, persist, items,
                 readers, file, crashed, nextKey, ops, addRet, loaded>>

\* decodeGob: dump under Load's lock; store takes and releases the write
\* lock itself; early under no lock.
Decode(p) ==
  /\ ~crashed /\ pc[p] = "dec"
  /\ variant = "store" => CanLock
  /\ LET r == decodeGob(loc[p].buf, items) IN
       /\ items' = r.items
       /\ loc' = [loc EXCEPT ![p].err = r.err]
  /\ loaded' = TRUE
  /\ pc' = [pc EXCEPT ![p] = "ret"]
  /\ UNCHANGED <<variant, wfailed, registry, built, lastNew, filename, persist, writer,
                 readers, file, crashed, nextKey, ops, addRet>>

\* ----------------------------------------------------- persistInterval
\* One round of the loop after the sleep. dump, store: s.Save(). early: Lock,
\* EncodeFile.
TickBegin ==
  /\ Start(Ticker) /\ persist = PERSIST_INTERVAL
  /\ variant = "dump" => CanRLock
  /\ variant = "early" => CanLock
  /\ readers' = IF variant = "dump" THEN readers \cup {Ticker} ELSE readers
  /\ writer' = IF variant = "early" THEN Ticker ELSE writer
  /\ loc' = [loc EXCEPT ![Ticker] = [NoLoc EXCEPT !.op = "Tick"]]
  /\ pc' = [pc EXCEPT ![Ticker] = "enc"]
  /\ ops' = ops + 1
  /\ UNCHANGED <<variant, wfailed, registry, built, lastNew, filename, persist, items,
                 file, crashed, nextKey, addRet, loaded>>

\* dump, store: an error is printed and the loop goes on. early: Unlock,
\* then panic(err) on an error.
TickEnd ==
  /\ ~crashed /\ pc[Ticker] = "ret"
  /\ Release(Ticker)
  /\ crashed' = (variant = "early" /\ loc[Ticker].err # Nil)
  /\ loc' = [loc EXCEPT ![Ticker] = NoLoc]
  /\ pc' = [pc EXCEPT ![Ticker] = "idle"]
  /\ UNCHANGED <<variant, wfailed, registry, built, lastNew, filename, persist, items,
                 file, nextKey, ops, addRet, loaded>>

Next ==
  \/ NewDump
  \/ EarlyNewStore
  \/ \E p \in Procs : AddLock(p)
  \/ \E p \in Procs : StoreUnlock(p)
  \/ \E p \in Procs : StoreAddLen(p)
  \/ \E p \in Procs : UpdateLock(p)
  \/ \E p \in Procs : MapLock(p)
  \/ \E p \in Procs : ViewRLock(p)
  \/ \E p \in Procs : JSONRLock(p)
  \/ \E p \in Procs : EarlyJSONBegin(p)
  \/ \E p \in Procs : EarlyJSONScan(p)
  \/ \E p \in Procs : SaveBegin(p)
  \/ \E p \in Procs : LoadBegin(p)
  \/ \E p \in Procs : ReadFile(p)
  \/ \E p \in Procs : Decode(p)
  \/ TickBegin
  \/ TickEnd
  \/ \E p \in Threads : Encode(p)
  \/ \E p \in Threads : WriteOpen(p)
  \/ \E p \in Threads : WriteData(p)
  \/ \E p \in Procs : Return(p)

Spec == Init /\ [][Next]_vars

\* =============================================================== claims
BadMode(ps) ==
  ps # PERSIST_MANUAL /\ ps # PERSIST_WRITES /\ ps # PERSIST_INTERVAL

\* The call thread p is in has reached its return statement.
Returning(p, op) == pc[p] = "ret" /\ loc[p].op = op

\* Thread p took a step.
Stepped(p) == pc'[p] # pc[p]

\* ------------------------------------------------------------------ C1
\* C1: with no Load since the store was built, every Add that has returned
\* returned the position of its own record: the record at the returned id
\* is the one it passed in, and the ids returned so far are pairwise
\* distinct and are exactly 0..n-1 for the n Adds that have returned.
C1_AddReturnsOwnPosition ==
  ~loaded =>
    /\ \A r \in addRet :
         /\ r.id + 1 \in 1..Len(items)
         /\ items[r.id + 1].key = r.key
    /\ {r.id : r \in addRet} = 0..(Cardinality(addRet) - 1)

\* ------------------------------------------------------------------ C2
\* A decodeGob (of Load, or of DecodeFile) writes the list in this step.
LoadDecodes == \E p \in Threads : pc[p] = "dec" /\ pc'[p] = "ret"

\* An Add appends in this step.
AddAppends == \E p \in Procs : pc[p] = "idle" /\ loc'[p].op = "Add"

\* The list does not get shorter and every record stays at its position.
KeepsRecords ==
  /\ Len(items') >= Len(items)
  /\ \A i \in 1..Len(items) : items'[i].key = items[i].key

\* C2 as stated: no operation (Add, View, Update, Map, Save, Load,
\* EncodeJSON, interval tick) removes a record or moves one to another
\* position, and Add extends the list by exactly one. Stated of package
\* dump, where every access to the list is under the lock.
C2_NothingRemovesOrRenumbers ==
  [][variant = "dump"
     => KeepsRecords /\ (AddAppends => Len(items') = Len(items) + 1)]_vars

\* C2 as amended: no operation other than Load removes a record or moves
\* one: Add extends the list by exactly one record, and View, Update, Map,
\* Save, EncodeJSON and the interval tick leave every record at its
\* position and the length as it is. Load replaces the list by what it
\* decodes from the file.
C2_OnlyLoadReplaces ==
  [][/\ ~LoadDecodes
        => /\ KeepsRecords
           /\ Len(items') = Len(items) + (IF AddAppends THEN 1 ELSE 0)
     /\ \A p \in Threads :
          (pc[p] = "dec" /\ pc'[p] = "ret")
          => items' = decodeGob(loc[p].buf, items).items]_vars

C2_Witness ==
  /\ Len(items) = 2 /\ ~loaded
  /\ items[1].key = 1 /\ items[2].key = 2
  /\ items[1].data = "b"
  /\ \E p \in Procs : Returning(p, "Update")

\* ------------------------------------------------------------------ C3
\* The thread is inside a call that writes the list and has exclusive
\* access to it, or writes it with no lock at all (early DecodeFile).
WritesList(p) ==
  /\ loc[p].op \in {"Add", "Update", "Map", "Load"}
  /\ writer = p \/ (variant = "early" /\ pc[p] = "dec")

\* The thread is inside View, MarshalJSON or Save and is reading the list:
\* under the read lock, or under none (early EncodeJson and EncodeFile).
ReadsList(p) ==
  /\ loc[p].op \in {"View", "MarshalJSON", "Save"}
  /\ p \in readers \/ pc[p] = "scan" \/ (variant = "early" /\ pc[p] = "enc")

\* C3: at every moment at most one operation has exclusive access to the
\* record list, and no View, EncodeJSON or Save reads it while an Add,
\* Update, Map or Load is writing it.
C3_WritersExcludeAll ==
  \A p \in Threads : \A q \in Threads \ {p} :
    WritesList(p) => ~WritesList(q) /\ ~ReadsList(q)

\* ------------------------------------------------------------------ C4
\* C4: the constructor returns InvalidLocation for an empty location,
\* NoTypesProvided for an empty type list (the location being valid),
\* InvalidPersistenceMode for an unrecognized mode (location and types being
\* valid); with an error it returns no store, and with three valid
\* arguments it returns a store and no error.
C4_ConstructValidates ==
  lastNew.called =>
    /\ lastNew.filename = "" => lastNew.err = "ErrInvalidFilename"
    /\ lastNew.filename # "" /\ lastNew.ntypes = 0
         => lastNew.err = "ErrInvalidTypes"
    /\ lastNew.filename # "" /\ lastNew.ntypes > 0 /\ BadMode(lastNew.persist)
         => lastNew.err = "ErrInvalidPersist"
    /\ lastNew.err # Nil => ~lastNew.store
    /\ lastNew.filename # "" /\ lastNew.ntypes > 0 /\ ~BadMode(lastNew.persist)
         => lastNew.store /\ lastNew.err = Nil

\* ------------------------------------------------------------------ C5
AllRegistered(its) ==
  \A i \in 1..Len(its) : its[i].typ # "nil" /\ Registered(its[i].typ)

\* The file holds a gob stream whose value has, at position id, a record of
\* the type of the record with identity key.
FileHoldsAt(id, key) ==
  /\ file.exists
  /\ file.bytes # << >>
  /\ id + 1 \in 1..Len(file.bytes[1])
  /\ \E i \in 1..Len(items) :
       /\ items[i].key = key
       /\ file.bytes[1][id + 1].name = NameOf(items[i].typ)

\* C5: with PERSIST_WRITES, when an Add returns without an error the file
\* holds a serialization of a list with the added record at the returned
\* id (stated for lists of registered types, and with no Load running).
C5_AddPersistedOnReturn ==
  \A p \in Procs :
    ( /\ Returning(p, "Add")
      /\ loc[p].err = Nil
      /\ persist = PERSIST_WRITES
      /\ ~loaded
      /\ AllRegistered(items) )
    => FileHoldsAt(loc[p].id, loc[p].key)

\* ------------------------------------------------------------------ C6
\* The WriteFile of thread p fails in this step.
WriteFails(p) ==
  \/ pc[p] = "wopen" /\ pc'[p] = "ret"
  \/ pc[p] = "wdata" /\ file'.bytes # loc[p].buf

\* C6: with PERSIST_WRITES, a failed save inside Add is reported by Add and
\* the append is not rolled back: no step of Add after the append changes
\* the list, a failing write sets the error Add returns and nothing clears
\* it, the record is in the list when Add returns the error (no Load having
\* replaced the list), and a View is handed the list as it is.
C6_FailedSaveKeepsRecord ==
  /\ [](\A p \in Procs :
          (Returning(p, "Add") /\ loc[p].err # Nil /\ ~loaded)
          => \E i \in 1..Len(items) : items[i].key = loc[p].key)
  /\ [][\A p \in Procs :
          /\ (loc[p].op = "Add" /\ Stepped(p))
             => /\ items' = items
                /\ WriteFails(p) => loc'[p].err = "IOErr"
                /\ (loc[p].err # Nil /\ pc'[p] # "idle")
                   => loc'[p].err = loc[p].err
          /\ (pc[p] = "idle" /\ loc'[p].op = "View")
             => loc'[p].seen = items]_vars

C6_Witness ==
  \E p \in Procs :
    /\ Returning(p, "Add") /\ loc[p].err = "IOErr"
    /\ persist = PERSIST_WRITES
    /\ \E i \in 1..Len(items) : items[i].key = loc[p].key
    /\ \E q \in Procs : Returning(q, "View") /\ loc[q].seen = items

\* ------------------------------------------------------------------ C7
\* C7: with PERSIST_WRITES, a successful Update saves while it still holds
\* exclusive access, and what it writes is the serialization of the list
\* exactly as its mutator left it.
C7_UpdateSavesUnderLock ==
  \A p \in Procs :
    (loc[p].op = "Update" /\ pc[p] \in {"enc", "wopen", "wdata"})
    => /\ writer = p
       /\ pc[p] # "enc" => loc[p].buf = encodeGob(loc[p].seen)

\* ------------------------------------------------------------------ C8
\* Thread p calls Update in this step with a mutator that returns an error.
FailedUpdateCall(p) ==
  pc[p] = "idle" /\ loc'[p].op = "Update" /\ loc'[p].ferr # Nil

SameRecords(a, b) ==
  /\ Len(a) = Len(b)
  /\ \A i \in 1..Len(a) : a[i].key = b[i].key /\ a[i].typ = b[i].typ

\* C8 as stated: when the mutator returns an error, Update returns that
\* error, saves nothing, and the file and the in-memory list are the same
\* after the call as before it. Stated of package dump, where nothing else
\* runs while Update holds the lock.
C8_FailedUpdateChangesNothing ==
  [][\A p \in Procs :
       (variant = "dump" /\ FailedUpdateCall(p))
       => /\ pc'[p] = "ret" /\ loc'[p].err = loc'[p].ferr
          /\ file' = file
          /\ items' = items]_vars

\* C8 as amended: when the mutator returns an error, Update goes straight
\* to its return with exactly that error, writes nothing to the file in any
\* mode, and does not itself change the list: the same records stay at the
\* same positions. What the mutator changed inside a record before it
\* failed stays changed.
C8_FailedUpdateKeepsRecords ==
  [][\A p \in Procs :
       /\ FailedUpdateCall(p)
          => /\ pc'[p] = "ret" /\ loc'[p].err = loc'[p].ferr
             /\ file' = file
             /\ SameRecords(items, items')
       /\ (Returning(p, "Update") /\ loc[p].ferr # Nil /\ Stepped(p))
          => /\ pc'[p] = "idle"
             /\ file' = file
             /\ items' = items]_vars

C8_Witness ==
  \E p \in Procs :
    /\ Returning(p, "Update") /\ loc[p].ferr = "CallerErr"
    /\ loc[p].err = "CallerErr"
    /\ persist = PERSIST_WRITES
    /\ \E i \in 1..Len(items) : items[i].data = "b"

\* ------------------------------------------------------------------ C9
\* C9: Map holds the write lock for the whole call and visits the records
\* once each in ascending id order; at the first error of the visitor it
\* stops there, returns that error and saves nothing; when every visit
\* succeeds and the mode is PERSIST_WRITES, the file holds the list when Map
\* reaches its return, with the lock still held.
C9_MapVisitsInOrder ==
  \A p \in Procs :
    loc[p].op = "Map" =>
      /\ writer = p
      /\ loc[p].seen = [i \in 1..Len(loc[p].seen) |-> i - 1]
      /\ loc[p].ferr = Nil => Len(loc[p].seen) = Len(items)
      /\ loc[p].ferr # Nil
         => /\ Len(loc[p].seen) = loc[p].id + 1
            /\ pc[p] = "ret"
            /\ loc[p].err = loc[p].ferr
      /\ pc[p] \in {"enc", "wopen", "wdata"} => persist = PERSIST_WRITES
      /\ (pc[p] = "ret" /\ loc[p].err = Nil /\ persist = PERSIST_WRITES)
         => file = [exists |-> TRUE, bytes |-> encodeGob(items)]

C9_Witness ==
  \E p \in Procs :
    /\ Returning(p, "Map") /\ loc[p].ferr = "CallerErr"
    /\ Len(items) = 2 /\ loc[p].seen = <<0>>
    /\ persist = PERSIST_WRITES

\* ----------------------------------------------------------------- C10
FieldEqual(a, b) ==
  /\ Len(a) = Len(b)
  /\ \A i \in 1..Len(a) : a[i].typ = b[i].typ /\ a[i].data = b[i].data

\* The WriteFile of thread p succeeds in this step.
WriteSucceeds(p) == pc[p] = "wdata" /\ pc'[p] = "ret" /\ loc'[p].err = Nil

ReadFails(p) == pc[p] = "read" /\ pc'[p] = "ret"

\* C11: a Load whose file cannot be read (it does not exist, or the read
\* fails) returns an error and leaves the list as it was: a missing file
\* always fails the read, the failed read sets the error Load returns, and
\* no step of that Load (taking the lock, the read, the return) changes the
\* list or the file; in dump and store the lock is held from the call to
\* the failed read, so nothing else changes the list meanwhile either.
C11_FailedLoadKeepsList ==
  /\ [](\A p \in Procs :
          /\ (Returning(p, "Load") /\ loc[p].buf = << >> /\ ~loaded)
             => loc[p].err # Nil
          /\ (pc[p] = "read" /\ variant # "early") => writer = p)
  /\ [][\A p \in Procs :
          /\ (pc[p] = "idle" /\ loc'[p].op = "Load") => items' = items
          /\ (pc[p] = "read" /\ Stepped(p))
             => /\ items' = items /\ file' = file
                /\ ~file.exists => ReadFails(p)
                /\ ReadFails(p) <=> loc'[p].err = "IOErr"
          /\ (Returning(p, "Load") /\ loc[p].err = "IOErr" /\ Stepped(p))
             => items' = items /\ file' = file]_vars

C11_Witness ==
  \E p \in Procs :
    /\ Returning(p, "Load") /\ loc[p].err = "IOErr"
    /\ ~file.exists
    /\ Len(items) = 2 /\ ~loaded

\* ----------------------------------------------------------------- C12
RECURSIVE Concat(_)
Concat(ss) == IF ss = << >> THEN << >> ELSE Head(ss) \o Concat(Tail(ss))

\* '[', the records' own encodings in order with one comma between two of
\* them, ']'.
JSONArray(its) ==
  <<"[">>
  \o Concat([i \in 1..Len(its) |->
               ItemJSON(its[i]) \o (IF i < Len(its) THEN <<",">> ELSE << >>)])
  \o <<"]">>

\* The records whose own MarshalJSON fails.
FailingAt(its) == {i \in 1..Len(its) : ItemJSONFails(its[i])}

\* Thread p's MarshalJSON (EncodeJson) produces its result in this step.
JSONResult(p) ==
  loc'[p].op = "MarshalJSON" /\ pc'[p] = "ret" /\ pc[p] # "ret"

\* C12: MarshalJSON of a list (with no nil element) returns '[' + the
\* records' encodings in list order separated by single commas + ']', with
\* no trailing comma and '[]' for the empty list; when the encoding of a
\* record fails, at whatever position, it returns the error of the first
\* such record and no bytes.
C12_JSONArrayOrFirstError ==
  [][\A p \in Procs :
       (JSONResult(p) /\ ~HasNil(items))
       => IF FailingAt(items) = {}
          THEN loc'[p].err = Nil /\ loc'[p].buf = JSONArray(items)
          ELSE /\ loc'[p].err = "JSONErr"
               /\ loc'[p].id = Min(FailingAt(items)) - 1
               /\ loc'[p].buf = << >>]_vars

C12_Witness ==
  \E p \in Procs :
    /\ Returning(p, "MarshalJSON")
    /\ Len(items) = 2
    /\ ~ItemJSONFails(items[1]) /\ ItemJSONFails(items[2])
    /\ loc[p].err = "JSONErr" /\ loc[p].id = 1 /\ loc[p].buf = << >>

\* ----------------------------------------------------------------- C13
\* Thread p is inside MarshalJSON (EncodeJson) before or after this step.
InJSON(p) == loc[p].op = "MarshalJSON" \/ loc'[p].op = "MarshalJSON"

C14_TickFailureSurvives ==
  [][(pc[Ticker] = "ret" /\ loc[Ticker].err # Nil /\ Stepped(Ticker))
     => /\ ~crashed'
        /\ pc'[Ticker] = "idle"
        /\ \A p \in Procs : loc'[p] = loc[p]]_vars

\* ----------------------------------------------------------------- C15
\* C15: with PERSIST_MANUAL and PERSIST_INTERVAL, Add, Update and Map never
\* encode or write the file and return no error but the one of the caller's
\* function (Add: none); the file changes only in a step of Save or of the
\* interval task, and with PERSIST_MANUAL only in a step of Save.
C15_OnlySaveWritesFile ==
  /\ [](\A p \in Procs :
          (loc[p].op \in {"Add", "Update", "Map"} /\ persist # PERSIST_WRITES)
          => /\ pc[p] \notin {"enc", "wopen", "wdata"}
             /\ loc[p].err = loc[p].ferr
             /\ loc[p].op = "Add" => loc[p].err = Nil)
  /\ [][(persist # PERSIST_WRITES /\ file' # file)
        => \E p \in Threads :
             /\ Stepped(p)
             /\ loc[p].op \in {"Save", "Tick"}
             /\ persist = PERSIST_MANUAL => loc[p].op = "Save"]_vars

C15_Witness ==
  \E p \in Procs :
    /\ built /\ persist = PERSIST_MANUAL
    /\ Returning(p, "Update") /\ loc[p].err = Nil
    /\ Len(items) = 1 /\ items[1].data = "b"
    /\ ~file.exists

\* ----------------------------------------------------------------- C16
\* C16: View calls f once, with the whole list as it is, under the read
\* lock (no writer inside); it returns exactly what f returned, nil or the
\* error; and once it has returned it holds no lock, whatever f returned.
C16_ViewPropagatesAndReleases ==
  /\ [](\A p \in Procs :
          Returning(p, "View")
          => /\ p \in readers /\ writer = None
             /\ loc[p].err = loc[p].ferr)
  /\ [][\A p \in Procs :
          /\ (pc[p] = "idle" /\ loc'[p].op = "View")
             => /\ pc'[p] = "ret"
                /\ loc'[p].seen = items /\ items' = items
          /\ (Returning(p, "View") /\ Stepped(p))
             => /\ pc'[p] = "idle"
                /\ p \notin readers' /\ writer' # p
                /\ items' = items]_vars

C16_Witness ==
  \E p \in Procs :
    /\ Returning(p, "View")
    /\ loc[p].ferr = "CallerErr" /\ loc[p].err = "CallerErr"
    /\ p \in readers
    /\ Len(loc[p].seen) = 2

\* ----------------------------------------------------------------- C17
\* Thread p is inside View or MarshalJSON (EncodeJson) and is reading the
\* list: f, or the loop, runs from the step that starts the call to the
\* step that returns.
Observing(p) ==
  /\ loc[p].op \in {"View", "MarshalJSON"}
  /\ pc[p] \in {"ret", "scan"}

\* C17: what a View or a MarshalJSON observes is the list between two
\* whole writes: from the moment the reader is handed the list to the moment
\* it returns, no Add, Update, Map or Load changes the list.
C17_ReadersSeeWholeWrites ==
  [][\A p \in Procs : (Observing(p) /\ ~Stepped(p)) => items' = items]_vars

\* ----------------------------------------------------------------- C18
\* The interval task is inside the save of a round.
TickSaving == loc[Ticker].op = "Tick" /\ pc[Ticker] \in {"enc", "wopen", "wdata"}

\* Thread p is inside the critical section of a call: it holds the lock, or
\* it is in the part of a call that reads or writes the list or the file.
InCritical(p) ==
  \/ Holds(p)
  \/ pc[p] \in {"scan", "enc", "wopen", "wdata", "read", "dec"}

\* C18: a round of the interval task has exclusive access for the whole of
\* its save: while it encodes and writes, it holds the write lock and no
\* View, MarshalJSON, Save, Add, Update, Map or Load is inside its critical
\* section.
C18_TickSavesExclusively ==
  TickSaving => writer = Ticker /\ \A p \in Procs : ~InCritical(p)

\* ----------------------------------------------------------------- C19
\* The next step of the call thread p is in.
Progress(p) ==
  \/ StoreUnlock(p) \/ StoreAddLen(p)
  \/ Encode(p) \/ WriteOpen(p) \/ WriteData(p)
  \/ EarlyJSONScan(p)
  \/ ReadFile(p) \/ Decode(p)
  \/ (p \in Procs /\ Return(p))
  \/ (p = Ticker /\ TickEnd)

\* Thread p is inside a call at a point where it acquires the mutex:
\* Store.encodeGob (RLock) and Store.decodeGob (Lock). Every other
\* acquisition is the first statement of a call.
WaitsForLock(p) == variant = "store" /\ pc[p] \in {"enc", "dec"}

\* C19: no interleaving of the calls and the interval rounds deadlocks: a
\* thread that is not inside a call holds no lock (every return path
\* released what the call took); a thread that acquires the mutex inside a
\* call does not hold it already (the save inside Add, Update and Map never
\* re-acquires); and a thread inside a call can take its next step or is
\* kept from it by another thread that holds the lock and can take its own.
C19_NoDeadlock ==
  \A p \in Threads :
    /\ pc[p] = "idle" => ~Holds(p)
    /\ WaitsForLock(p) => ~Holds(p)
    /\ (pc[p] # "idle" /\ ~crashed)
       => \/ ENABLED Progress(p)
          \/ \E q \in Threads \ {p} : Holds(q) /\ ENABLED Progress(q)

C19_Witness ==
  \E p \in Procs : \E q \in Procs \ {p} :
    /\ variant = "store" /\ persist = PERSIST_WRITES
    /\ loc[p].op = "Add" /\ pc[p] = "enc"
    /\ writer = q /\ loc[q].op = "Update"
    /\ ~ENABLED Progress(p)

\* ----------------------------------------------------------------- C20
\* gob's Encode of the list fails: a record's concrete type was not
\* registered.
EncodeFailed(its) ==
  \E i \in 1..Len(its) : its[i].typ # "nil" /\ ~Registered(its[i].typ)

\* C20: when the gob encoding of the list fails, Save, and the save inside
\* Add, Update and Map with PERSIST_WRITES, returns an error to its caller.
C20_EncodeFailureReported ==
  \A p \in Procs :
    ( /\ pc[p] = "ret"
      /\ loc[p].op \in {"Save", "Add", "Update", "Map"}
      /\ EncodeFailed(loc[p].snap) )
    => loc[p].err # Nil

\* ----------------------------------------------------------------- C21
\* C21: Load holds the write lock from before it reads the file until it
\* has replaced the list, and when a Load returns without an error the list
\* is what the file decodes to, in file order.
C21_LoadHoldsLockThroughout ==
  \A p \in Procs :
    /\ (loc[p].op = "Load" /\ pc[p] \in {"read", "dec"}) => writer = p
    /\ (Returning(p, "Load") /\ loc[p].err = Nil)
       => /\ writer = p
          /\ file.exists
          /\ decodeGob(file.bytes, << >>).err = Nil
          /\ FieldEqual(items, decodeGob(file.bytes, << >>).items)

\* ----------------------------------------------------------------- C22
\* The constructor is called in this step.
Constructs == ~built /\ lastNew'.called /\ \A p \in Threads : ~Stepped(p)

\* C22: the constructor, in every persist mode, neither reads nor writes
\* the file and returns a store with an empty list, whether the file exists
\* or not: the step of the constructor leaves the file and every thread
\* alone, a store on which no call was made has an empty list, and the file
\* changes only in the WriteFile of a save made on a store that was built.
C22_ConstructIsLazy ==
  /\ []((built /\ ops = 0) => items = << >> /\ file \in InitFiles)
  /\ [][/\ Constructs => file' = file /\ loc' = loc /\ items' = << >>
        /\ file' # file
           => /\ built
              /\ \E p \in Threads :
                   Stepped(p) /\ pc[p] \in {"wopen", "wdata"}]_vars

C22_Witness ==
  /\ built /\ ops = 0
  /\ persist = PERSIST_INTERVAL
  /\ file.exists /\ file.bytes # << >>
  /\ items = << >>

\* ----------------------------------------------------------------- C23
\* Thread p is inside ioutil.WriteFile.
Writing(p) == pc[p] \in {"wopen", "wdata"}

\* C23: at most one write of the file is in progress at any moment: the
\* WriteFile calls of Save, of the save inside Add, Update and Map, and of
\* the interval task never overlap.
C23_OneFileWriteAtATime ==
  \A p \in Threads : \A q \in Threads \ {p} : ~(Writing(p) /\ Writing(q))

\* ----------------------------------------------------------------- C25
\* C25: a constructor call that returns an error has no side effect: gob's
\* registry is the same after the call as before it, and no store and no
\* interval task exist after it.
C25_FailedConstructHasNoEffect ==
  [][(Constructs /\ lastNew'.err # Nil)
     => registry' = registry /\ ~built']_vars

\* ----------------------------------------------------------------- C24
\* No call and no round of the interval task is in progress.
Quiescent == \A p \in Threads : pc[p] = "idle"

\* C24: with PERSIST_WRITES and no failed file write, whenever no call is
\* in progress and an Add has completed (no Load having been made), the
\* file holds the serialization of the list as it is in memory; also after
\* an Update or a Map whose function changed a record and returned an error.
C24_FileEqualsMemory ==
  ( /\ built /\ ~crashed
    /\ persist = PERSIST_WRITES
    /\ Quiescent
    /\ addRet # {}
    /\ ~wfailed /\ ~loaded )
  => file = [exists |-> TRUE, bytes |-> encodeGob(items)]

====
